---- MODULE Spec2Model ----
(***************************************************************************)
(* voice-sync: the sound-detection microservice                            *)
(* (python-services/sound-detection/app.py) and the pacing analysis        *)
(* (server/vad-service.py).                                                *)
(*                                                                         *)
(* Time is counted in milliseconds, probabilities in tenths, speech in     *)
(* samples at 16 kHz.  Frame indices are 0-based as in the source.         *)
(***************************************************************************)
EXTENDS Integers, Sequences, FiniteSets, TLC

\* ------------------------------------------------------------ bounds
NumRequests == 2
NumClasses == 2
MaxFrames == 3
MaxSamples == 103
RoundingGrid == 1000

\* ------------------------------------------------- program constants
FrameMs == 10
DefaultThreshold == 3
DefaultMinDurationMs == 100

\* --------------------------------------------------------- the inputs
Requests == 1..NumRequests
Classes == 1..NumClasses
Probs == {DefaultThreshold, DefaultThreshold + 2}
Thresholds == {DefaultThreshold, DefaultThreshold + 2}
MinDurations == {0, 2 * FrameMs, 2 * FrameMs + 5, DefaultMinDurationMs}
Framewise == UNION {[0..(n - 1) -> [Classes -> Probs]] : n \in 0..MaxFrames}
UniformFramewise ==
  {[t \in 0..(n - 1) |-> [c \in Classes |-> p]] : n \in {0, 2}, p \in Probs}

None == <<>>
Kinds == {"input", "audio"}
TempFile(r, kind) == <<r, kind>>

\* ------------------------------------------------ strings as characters
UpperAlpha == <<"A", "B", "C", "D", "E", "F", "G", "H", "I", "J", "K", "L", "M",
                "N", "O", "P", "Q", "R", "S", "T", "U", "V", "W", "X", "Y", "Z">>
LowerAlpha == <<"a", "b", "c", "d", "e", "f", "g", "h", "i", "j", "k", "l", "m",
                "n", "o", "p", "q", "r", "s", "t", "u", "v", "w", "x", "y", "z">>

LowerChar(c) ==
  IF \E i \in 1..Len(UpperAlpha) : UpperAlpha[i] = c
  THEN LowerAlpha[CHOOSE i \in 1..Len(UpperAlpha) : UpperAlpha[i] = c]
  ELSE c

Lower(s) == [i \in 1..Len(s) |-> LowerChar(s[i])]

\* str.rfind: the last index of character c in s, 0 when there is none
\* (1-based, so 0 plays the part of Python's -1).
RFind(s, c) ==
  IF \E i \in 1..Len(s) : s[i] = c
  THEN CHOOSE i \in 1..Len(s) : s[i] = c /\ \A j \in (i + 1)..Len(s) : s[j] # c
  ELSE 0

\* os.path.splitext(p)[1]: the text from the last dot of the last path
\* component, empty when that dot is missing or only leading dots precede it.
SplitextExt(p) ==
  LET sepIndex == RFind(p, "/")
      dotIndex == RFind(p, ".")
  IN IF dotIndex > sepIndex
        /\ \E k \in (sepIndex + 1)..(dotIndex - 1) : p[k] # "."
     THEN SubSeq(p, dotIndex, Len(p))
     ELSE <<>>

Mp4 == <<".", "m", "p", "4">>
VideoExts == {Mp4, <<".", "a", "v", "i">>, <<".", "m", "o", "v">>,
              <<".", "m", "k", "v">>, <<".", "w", "e", "b", "m">>}

\* line 131: os.path.splitext(file.filename)[1] or '.mp4'
FileExt(filename) ==
  IF SplitextExt(filename) = <<>> THEN Mp4 ELSE SplitextExt(filename)

IsVideoCaseSensitive(ext) == ext \in VideoExts

\* line 140: file_ext.lower() in ['.mp4', '.avi', '.mov', '.mkv', '.webm']
IsVideo(ext) == Lower(ext) \in VideoExts

Filenames ==
  { <<"a", ".", "M", "o", "V">>,
    <<"a", ".", "w", "a", "v">>,
    <<"a">>,
    <<".", "m", "k", "v">>,
    <<"d", ".", "m", "p", "4", "/", "a", ".", "o", "g", "g">> }


\* ------------------------------------------- segment extraction (pure)
\* line 184: above_threshold = class_probs > threshold
AboveAtLeast(class_probs, thr) ==
  [t \in DOMAIN class_probs |-> class_probs[t] >= thr]

AboveThreshold(class_probs, thr) ==
  [t \in DOMAIN class_probs |-> class_probs[t] > thr]

\* line 186: np.any(above_threshold)
AnyAbove(above) == \E t \in DOMAIN above : above[t]

\* line 190: np.concatenate(([0], above_threshold.astype(int), [0])),
\* indexed 0..n+1 for a mask over 0..n-1.
Padded(above) ==
  LET n == Cardinality(DOMAIN above)
  IN [i \in 0..(n + 1) |-> IF i = 0 \/ i = n + 1 THEN 0
                           ELSE IF above[i - 1] THEN 1 ELSE 0]

\* line 190: np.diff(...), indexed 0..n
Diff(above) ==
  LET n == Cardinality(DOMAIN above)
      padded == Padded(above)
  IN [i \in 0..n |-> padded[i + 1] - padded[i]]

RECURSIVE Ascending(_)
Ascending(S) ==
  IF S = {} THEN <<>>
  ELSE LET m == CHOOSE x \in S : \A y \in S : x <= y
       IN <<m>> \o Ascending(S \ {m})

\* lines 191-192: np.where(diff == v)[0], the indices in ascending order
Where(diff, v) == Ascending({i \in DOMAIN diff : diff[i] = v})

Min(a, b) == IF a <= b THEN a ELSE b

\* line 194: zip(starts, ends)
Zip(ss, es) == [i \in 1..Min(Len(ss), Len(es)) |-> <<ss[i], es[i]>>]

\* lines 199-206: the event of one segment (label is the class index;
\* category and confidence are functions of the label and the probabilities
\* that no operation below reads).
Event(c, start, end) ==
  [label |-> c,
   start_time |-> start * FrameMs,
   end_time |-> end * FrameMs,
   duration |-> (end - start) * FrameMs]

KeepsLonger(segment_duration, min_dur) == segment_duration > min_dur

\* line 198: segment_duration >= min_duration
Keeps(segment_duration, min_dur) == segment_duration >= min_dur

\* lines 194-206: the events one class appends, in zip order
RECURSIVE ClassEvents(_, _, _)
ClassEvents(c, pairs, min_dur) ==
  IF pairs = <<>> THEN <<>>
  ELSE LET start == Head(pairs)[1]
           end == Head(pairs)[2]
           rest == ClassEvents(c, Tail(pairs), min_dur)
       IN IF Keeps((end - start) * FrameMs, min_dur)
          THEN <<Event(c, start, end)>> \o rest
          ELSE rest

\* An insertion that puts e in front of the elements with an equal key.
InsertBeforeEqual(sorted, e) ==
  LET k == Cardinality({i \in 1..Len(sorted) : sorted[i].start_time < e.start_time})
  IN SubSeq(sorted, 1, k) \o <<e>> \o SubSeq(sorted, k + 1, Len(sorted))

\* e goes behind every element whose key is not larger: equal keys keep
\* the order in which they were appended.
InsertStable(sorted, e) ==
  LET k == Cardinality({i \in 1..Len(sorted) : sorted[i].start_time <= e.start_time})
  IN SubSeq(sorted, 1, k) \o <<e>> \o SubSeq(sorted, k + 1, Len(sorted))

\* line 209: sorted(events, key=lambda x: x['start_time']); sorted is stable.
RECURSIVE SortedByStart(_)
SortedByStart(evs) ==
  IF evs = <<>> THEN <<>>
  ELSE InsertStable(SortedByStart(SubSeq(evs, 1, Len(evs) - 1)), evs[Len(evs)])


\* ------------------------------------------------------------- state
VARIABLES
  sed_model,        \* the global model handle: 0 is None, n > 0 the n-th model built
  constructions,    \* how many SoundEventDetection constructors have succeeded
  health_reply,     \* the last /health response
  fs,               \* the temporary files on disk
  unlink_failed,    \* the files whose os.unlink raised in a finally block
  busy,             \* a handler holds the event loop (it runs between awaits)
  cur,              \* the request whose handler resumed last (0: none yet)
  pc,               \* per request: where its handler stands
  filename,         \* per request: file.filename
  file_ext,         \* per request: file_ext
  threshold,        \* per request: the threshold parameter
  min_duration,     \* per request: the min_duration parameter (ms)
  responses,        \* per request: the status of each HTTP response sent for it
  \* locals of the handler that resumed last
  temp_input_path, temp_audio_path, audio_path_for_librosa, audio, model,
  framewise_data, class_idx, starts, ends, events,
  steps,            \* the pipeline steps it has invoked, in order
  raised,           \* the step that raised ("" when none has)
  outcome,          \* what its return or raise hands to the framework
  \* vad-service.py
  vpc, veo_audio, user_audio, veo_result, user_result, pacing_result

server_vars == <<sed_model, constructions, health_reply, fs, unlink_failed, busy, cur,
                 pc, filename, file_ext, threshold, min_duration, responses>>
frame_vars == <<temp_input_path, temp_audio_path, audio_path_for_librosa, audio, model,
                framewise_data, class_idx, starts, ends, events, steps, raised, outcome>>
vad_vars == <<vpc, veo_audio, user_audio, veo_result, user_result, pacing_result>>
vars == <<server_vars, frame_vars, vad_vars>>

NoResponse == [status |-> 0, detail |-> <<>>, events |-> <<>>]
NoResult == [success |-> FALSE, error |-> ""]
NoAudio == [raises |-> TRUE, error |-> "", speech_timestamps |-> <<>>]

InitServer ==
  /\ sed_model = 0
  /\ constructions = 0
  /\ health_reply = [status |-> "none", model_loaded |-> FALSE]
  /\ fs = {}
  /\ unlink_failed = {}
  /\ busy = FALSE
  /\ cur = 0
  /\ pc = [r \in Requests |-> "new"]
  /\ filename = [r \in Requests |-> <<>>]
  /\ file_ext = [r \in Requests |-> <<>>]
  /\ threshold = [r \in Requests |-> DefaultThreshold]
  /\ min_duration = [r \in Requests |-> DefaultMinDurationMs]
  /\ responses = [r \in Requests |-> <<>>]
  /\ temp_input_path = None
  /\ temp_audio_path = None
  /\ audio_path_for_librosa = None
  /\ audio = None
  /\ model = 0
  /\ framewise_data = <<>>
  /\ class_idx = 0
  /\ starts = <<>>
  /\ ends = <<>>
  /\ events = <<>>
  /\ steps = <<>>
  /\ raised = ""
  /\ outcome = NoResponse

InitVad ==
  /\ vpc = "start"
  /\ veo_audio = NoAudio
  /\ user_audio = NoAudio
  /\ veo_result = NoResult
  /\ user_result = NoResult
  /\ pacing_result = NoResult

Init == InitServer /\ InitVad

\* ------------------------------------------------- /detect-sounds, /health
Running(r) == busy /\ cur = r

\* lines 240-242 entered: the step's exception reaches the except clause
Raise(r, step) ==
  /\ raised' = step
  /\ pc' = [pc EXCEPT ![r] = "except"]

\* lines 126-133: the locals, the extension, the temporary file, and the
\* await of file.read(), where the handler gives up the event loop.  When the
\* temporary file cannot be created the handler goes on to its except clause
\* without awaiting.
Begin(r, name, thr, min_dur, ok) ==
  /\ ~busy
  /\ pc[r] = "new"
  /\ filename' = [filename EXCEPT ![r] = name]
  /\ file_ext' = [file_ext EXCEPT ![r] = FileExt(name)]
  /\ threshold' = [threshold EXCEPT ![r] = thr]
  /\ min_duration' = [min_duration EXCEPT ![r] = min_dur]
  /\ IF ok
     THEN /\ fs' = fs \cup {TempFile(r, "input")}
          /\ pc' = [pc EXCEPT ![r] = "reading"]
          /\ UNCHANGED <<busy, cur, frame_vars>>
     ELSE /\ busy' = TRUE
          /\ cur' = r
          /\ temp_input_path' = None
          /\ temp_audio_path' = None
          /\ audio_path_for_librosa' = None
          /\ audio' = None
          /\ model' = 0
          /\ framewise_data' = <<>>
          /\ class_idx' = 0
          /\ starts' = <<>>
          /\ ends' = <<>>
          /\ events' = <<>>
          /\ outcome' = NoResponse
          /\ steps' = <<"save">>
          /\ Raise(r, "save")
          /\ UNCHANGED fs
  /\ UNCHANGED <<sed_model, constructions, health_reply, unlink_failed,
                 responses, vad_vars>>

\* lines 133-137: the handler resumes; the content is written and only then
\* is the file's name recorded in temp_input_path.
Save(r, ok) ==
  /\ ~busy
  /\ pc[r] = "reading"
  /\ busy' = TRUE
  /\ cur' = r
  /\ temp_audio_path' = None
  /\ audio_path_for_librosa' = None
  /\ audio' = None
  /\ model' = 0
  /\ framewise_data' = <<>>
  /\ class_idx' = 0
  /\ starts' = <<>>
  /\ ends' = <<>>
  /\ events' = <<>>
  /\ outcome' = NoResponse
  /\ steps' = <<"save">>
  /\ IF ok
     THEN /\ temp_input_path' = TempFile(r, "input")
          /\ raised' = ""
          /\ pc' = [pc EXCEPT ![r] = "saved"]
     ELSE /\ temp_input_path' = None
          /\ Raise(r, "save")
  /\ UNCHANGED <<sed_model, constructions, health_reply, fs, unlink_failed,
                 filename, file_ext, threshold, min_duration, responses, vad_vars>>

\* lines 140-155: a video upload goes through ffmpeg; a failed run may or
\* may not leave its output file behind.
Ffmpeg(r, result) ==
  /\ Running(r)
  /\ pc[r] = "saved"
  /\ IsVideo(file_ext[r])
  /\ temp_audio_path' = TempFile(r, "audio")
  /\ steps' = Append(steps, "ffmpeg")
  /\ fs' = IF result \in {"ok", "partial"} THEN fs \cup {TempFile(r, "audio")} ELSE fs
  /\ IF result = "ok"
     THEN /\ audio_path_for_librosa' = TempFile(r, "audio")
          /\ pc' = [pc EXCEPT ![r] = "ready"]
          /\ UNCHANGED raised
     ELSE /\ Raise(r, "ffmpeg")
          /\ UNCHANGED audio_path_for_librosa
  /\ UNCHANGED <<sed_model, constructions, health_reply, unlink_failed, busy, cur,
                 filename, file_ext, threshold, min_duration, responses,
                 temp_input_path, audio, model, framewise_data, class_idx, starts,
                 ends, events, outcome, vad_vars>>

\* lines 156-158: an audio upload is decoded as it is
UseDirect(r) ==
  /\ Running(r)
  /\ pc[r] = "saved"
  /\ ~IsVideo(file_ext[r])
  /\ audio_path_for_librosa' = temp_input_path
  /\ pc' = [pc EXCEPT ![r] = "ready"]
  /\ UNCHANGED <<sed_model, constructions, health_reply, fs, unlink_failed, busy, cur,
                 filename, file_ext, threshold, min_duration, responses,
                 temp_input_path, temp_audio_path, audio, model, framewise_data,
                 class_idx, starts, ends, events, steps, raised, outcome, vad_vars>>

\* lines 161-165: librosa.load(audio_path_for_librosa, sr=32000, mono=True)
Load(r, ok) ==
  /\ Running(r)
  /\ pc[r] = "ready"
  /\ steps' = Append(steps, "decode")
  /\ IF ok /\ audio_path_for_librosa \in fs
     THEN /\ audio' = audio_path_for_librosa
          /\ pc' = [pc EXCEPT ![r] = "loaded"]
          /\ UNCHANGED raised
     ELSE /\ Raise(r, "decode")
          /\ UNCHANGED audio
  /\ UNCHANGED <<sed_model, constructions, health_reply, fs, unlink_failed, busy, cur,
                 filename, file_ext, threshold, min_duration, responses,
                 temp_input_path, temp_audio_path, audio_path_for_librosa, model,
                 framewise_data, class_idx, starts, ends, events, outcome, vad_vars>>


\* get_model without the None test: every call builds a model.
get_model_unguarded(r, ok) ==
  /\ Running(r)
  /\ pc[r] = "loaded"
  /\ steps' = Append(steps, "model")
  /\ IF ok
     THEN /\ sed_model' = constructions + 1
          /\ constructions' = constructions + 1
          /\ model' = constructions + 1
          /\ pc' = [pc EXCEPT ![r] = "model"]
          /\ UNCHANGED raised
     ELSE /\ Raise(r, "model")
          /\ UNCHANGED <<sed_model, constructions, model>>
  /\ UNCHANGED <<health_reply, fs, unlink_failed, busy, cur,
                 filename, file_ext, threshold, min_duration, responses,
                 temp_input_path, temp_audio_path, audio_path_for_librosa, audio,
                 framewise_data, class_idx, starts, ends, events, outcome, vad_vars>>

\* line 168 with lines 41-48: model = get_model(); the constructor runs only
\* while sed_model is None, and sed_model is assigned only when it returns.
get_model(r, ok) ==
  /\ Running(r)
  /\ pc[r] = "loaded"
  /\ steps' = Append(steps, "model")
  /\ IF sed_model = 0
     THEN IF ok
          THEN /\ sed_model' = constructions + 1
               /\ constructions' = constructions + 1
               /\ model' = constructions + 1
               /\ pc' = [pc EXCEPT ![r] = "model"]
               /\ UNCHANGED raised
          ELSE /\ Raise(r, "model")
               /\ UNCHANGED <<sed_model, constructions, model>>
     ELSE /\ ok
          /\ model' = sed_model
          /\ pc' = [pc EXCEPT ![r] = "model"]
          /\ UNCHANGED <<sed_model, constructions, raised>>
  /\ UNCHANGED <<health_reply, fs, unlink_failed, busy, cur,
                 filename, file_ext, threshold, min_duration, responses,
                 temp_input_path, temp_audio_path, audio_path_for_librosa, audio,
                 framewise_data, class_idx, starts, ends, events, outcome, vad_vars>>

\* lines 169-177: framewise_output = model.inference(audio)
Inference(r, output, ok) ==
  /\ Running(r)
  /\ pc[r] = "model"
  /\ steps' = Append(steps, "inference")
  /\ IF ok
     THEN /\ framewise_data' = output
          /\ pc' = [pc EXCEPT ![r] = "inferred"]
          /\ UNCHANGED raised
     ELSE /\ Raise(r, "inference")
          /\ UNCHANGED framewise_data
  /\ UNCHANGED <<sed_model, constructions, health_reply, fs, unlink_failed, busy, cur,
                 filename, file_ext, threshold, min_duration, responses,
                 temp_input_path, temp_audio_path, audio_path_for_librosa, audio, model,
                 class_idx, starts, ends, events, outcome, vad_vars>>

\* line 174: num_frames = framewise_data.shape[0]
NumFramesOf(data) == Cardinality(DOMAIN data)

\* line 183: class_probs = framewise_data[:, class_idx]
Column(data, c) == [t \in DOMAIN data |-> data[t][c]]

\* lines 182-206: one iteration of the loop over the classes (class_idx
\* counts the classes done; class c = class_idx + 1 is the one at hand).
ExtractClass(r, ok) ==
  /\ Running(r)
  /\ pc[r] = "inferred"
  /\ class_idx < NumClasses
  /\ steps' = IF class_idx = 0 THEN Append(steps, "segments") ELSE steps
  /\ IF ok
     THEN LET c == class_idx + 1
              above == AboveThreshold(Column(framewise_data, c), threshold[r])
              diff == Diff(above)
          IN /\ class_idx' = c
             /\ IF AnyAbove(above)
                THEN /\ starts' = Where(diff, 1)
                     /\ ends' = Where(diff, -1)
                     /\ events' = events \o
                          ClassEvents(c, Zip(Where(diff, 1), Where(diff, -1)),
                                      min_duration[r])
                ELSE UNCHANGED <<starts, ends, events>>
             /\ UNCHANGED <<pc, raised>>
     ELSE /\ Raise(r, "segments")
          /\ UNCHANGED <<class_idx, starts, ends, events>>
  /\ UNCHANGED <<sed_model, constructions, health_reply, fs, unlink_failed, busy, cur,
                 filename, file_ext, threshold, min_duration, responses,
                 temp_input_path, temp_audio_path, audio_path_for_librosa, audio, model,
                 framewise_data, outcome, vad_vars>>

\* line 209: events = sorted(events, key=lambda x: x['start_time'])
SortEvents(r) ==
  /\ Running(r)
  /\ pc[r] = "inferred"
  /\ class_idx = NumClasses
  /\ events' = SortedByStart(events)
  /\ pc' = [pc EXCEPT ![r] = "sorted"]
  /\ UNCHANGED <<sed_model, constructions, health_reply, fs, unlink_failed, busy, cur,
                 filename, file_ext, threshold, min_duration, responses,
                 temp_input_path, temp_audio_path, audio_path_for_librosa, audio, model,
                 framewise_data, class_idx, starts, ends, steps, raised, outcome,
                 vad_vars>>

\* lines 213-238: return JSONResponse({... "events": events ...}); building
\* the response raises when a value cannot be rendered as JSON.
Respond(r, ok) ==
  /\ Running(r)
  /\ pc[r] = "sorted"
  /\ steps' = Append(steps, "response")
  /\ IF ok
     THEN /\ outcome' = [status |-> 200, detail |-> <<>>, events |-> events]
          /\ pc' = [pc EXCEPT ![r] = "finally"]
          /\ UNCHANGED raised
     ELSE /\ Raise(r, "response")
          /\ UNCHANGED outcome
  /\ UNCHANGED <<sed_model, constructions, health_reply, fs, unlink_failed, busy, cur,
                 filename, file_ext, threshold, min_duration, responses,
                 temp_input_path, temp_audio_path, audio_path_for_librosa, audio, model,
                 framewise_data, class_idx, starts, ends, events, vad_vars>>

\* An except clause that answers with what had been gathered so far.
ExceptPartial(r) ==
  /\ Running(r)
  /\ pc[r] = "except"
  /\ outcome' = [status |-> 200, detail |-> <<>>, events |-> events]
  /\ pc' = [pc EXCEPT ![r] = "finally"]
  /\ UNCHANGED <<sed_model, constructions, health_reply, fs, unlink_failed, busy, cur,
                 filename, file_ext, threshold, min_duration, responses,
                 temp_input_path, temp_audio_path, audio_path_for_librosa, audio, model,
                 framewise_data, class_idx, starts, ends, events, steps, raised,
                 vad_vars>>

\* lines 240-242: raise HTTPException(500, "Audio processing failed: ...")
Except(r) ==
  /\ Running(r)
  /\ pc[r] = "except"
  /\ outcome' = [status |-> 500,
                 detail |-> <<"Audio processing failed: ", raised>>,
                 events |-> <<>>]
  /\ pc' = [pc EXCEPT ![r] = "finally"]
  /\ UNCHANGED <<sed_model, constructions, health_reply, fs, unlink_failed, busy, cur,
                 filename, file_ext, threshold, min_duration, responses,
                 temp_input_path, temp_audio_path, audio_path_for_librosa, audio, model,
                 framewise_data, class_idx, starts, ends, events, steps, raised,
                 vad_vars>>

\* line 247: the recorded paths that exist on disk
ToUnlink == {f \in {temp_input_path, temp_audio_path} : f # None /\ f \in fs}

\* lines 244-252, then the return or raise takes effect: each recorded path
\* that exists is unlinked (failing lists the files whose unlink raises, which
\* is only logged), the framework sends the response (responses keeps its
\* status; outcome keeps its body), and the handler's arguments are gone.
Finally(r, failing) ==
  /\ Running(r)
  /\ pc[r] = "finally"
  /\ failing \subseteq ToUnlink
  /\ fs' = fs \ (ToUnlink \ failing)
  /\ unlink_failed' = unlink_failed \cup failing
  /\ responses' = [responses EXCEPT ![r] = Append(@, outcome.status)]
  /\ pc' = [pc EXCEPT ![r] = "done"]
  /\ busy' = FALSE
  /\ filename' = [filename EXCEPT ![r] = <<>>]
  /\ file_ext' = [file_ext EXCEPT ![r] = <<>>]
  /\ threshold' = [threshold EXCEPT ![r] = DefaultThreshold]
  /\ min_duration' = [min_duration EXCEPT ![r] = DefaultMinDurationMs]
  /\ UNCHANGED <<sed_model, constructions, health_reply, cur, frame_vars, vad_vars>>

\* lines 65-71: GET /health
health_check ==
  /\ ~busy
  /\ health_reply' = [status |-> "healthy", model_loaded |-> sed_model # 0]
  /\ UNCHANGED <<sed_model, constructions, fs, unlink_failed, busy, cur, pc,
                 filename, file_ext, threshold, min_duration, responses,
                 frame_vars, vad_vars>>

\* Requests arrive in the order of their numbers.
Arrives(r) == \A q \in Requests : q < r => pc[q] # "new"

Next ==
  \/ \E r \in Requests, name \in Filenames :
       \E ok \in BOOLEAN :
         Arrives(r) /\ Begin(r, name, DefaultThreshold, 2 * FrameMs, ok)
  \/ \E r \in Requests, ok \in BOOLEAN : Save(r, ok)
  \/ \E r \in Requests, result \in {"ok", "partial", "nofile"} : Ffmpeg(r, result)
  \/ \E r \in Requests : UseDirect(r)
  \/ \E r \in Requests, ok \in BOOLEAN : Load(r, ok)
  \/ \E r \in Requests, ok \in BOOLEAN : get_model(r, ok)
  \/ \E r \in Requests, output \in UniformFramewise : Inference(r, output, TRUE)
  \/ \E r \in Requests : Inference(r, <<>>, FALSE)
  \/ \E r \in Requests, ok \in BOOLEAN : ExtractClass(r, ok)
  \/ \E r \in Requests : SortEvents(r)
  \/ \E r \in Requests, ok \in BOOLEAN : Respond(r, ok)
  \/ \E r \in Requests : Except(r)
  \/ \E r \in Requests : pc[r] = "finally" /\ \E failing \in SUBSET ToUnlink : Finally(r, failing)
  \/ health_check

Spec == Init /\ [][Next]_vars


\* ---------------------------------------------- the extraction on its own
\* One audio upload that goes through without a failure, over every framewise
\* output, threshold and minimum duration of the bounds.
AudioName == <<"a", ".", "w", "a", "v">>

NextDetect ==
  \/ pc[1] = "new" /\ \E thr \in Thresholds, min_dur \in MinDurations :
       Begin(1, AudioName, thr, min_dur, TRUE)
  \/ Save(1, TRUE)
  \/ UseDirect(1)
  \/ Load(1, TRUE)
  \/ get_model(1, TRUE)
  \/ pc[1] = "model" /\ \E output \in Framewise : Inference(1, output, TRUE)
  \/ ExtractClass(1, TRUE)
  \/ SortEvents(1)
  \/ Respond(1, TRUE)
  \/ Finally(1, {})

SpecDetect == Init /\ [][NextDetect]_vars

\* ------------------------------------------------------ vad-service.py
\* What an audio file yields: the analysis raises with an error text, or
\* get_speech_timestamps returns segments in samples.
Segment(start, end) == [start |-> start, end |-> end]

Timestamps ==
  {<<>>}
    \cup {<<Segment(1, e)>> : e \in 2..(MaxSamples + 1)}
    \cup {<<Segment(0, 1), Segment(2, e)>> : e \in 3..(MaxSamples + 1)}

Errors == {"Error opening file", "hub load failed"}

Audios ==
  [raises : {TRUE}, error : Errors, speech_timestamps : {<<>>}]
    \cup [raises : {FALSE}, error : {""}, speech_timestamps : Timestamps]

\* lines 68-71: sum(segment['end'] - segment['start'] for segment in ...)
RECURSIVE TotalSpeechSamples(_)
TotalSpeechSamples(ts) ==
  IF ts = <<>> THEN 0
  ELSE (Head(ts).end - Head(ts).start) + TotalSpeechSamples(Tail(ts))

\* lines 27-94: the result of get_speech_duration (speech_duration stays in
\* samples: the division by 16000.0 is the same change of unit on both sides
\* of the ratio; 'segments' is not read by analyze_pacing).
get_speech_duration(a) ==
  IF a.raises
  THEN [success |-> FALSE, error |-> a.error]
  ELSE [success |-> TRUE,
        speech_duration |-> TotalSpeechSamples(a.speech_timestamps),
        num_speech_segments |-> Len(a.speech_timestamps)]

\* Ratios are fractions <<numerator, denominator>>, denominator > 0.
Frac(n, d) == <<n, d>>
Le(a, b) == a[1] * b[2] <= b[1] * a[2]
Lt(a, b) == a[1] * b[2] < b[1] * a[2]

\* The roundings a float quotient of the two durations may have: none when
\* the quotient is 0 or is not computed, else one grid step down, none, or
\* one grid step up (a step is 1 / (RoundingGrid * veo_duration), smaller
\* than the distance of any inexact quotient of the bounds to a cut).
Roundings(veo, user) ==
  IF veo.success /\ user.success /\ veo.speech_duration > 0 /\ user.speech_duration > 0
  THEN {-1, 0, 1}
  ELSE {0}

\* line 117: user_duration / veo_duration if veo_duration > 0 else 0
Ratio(user_duration, veo_duration, rounding) ==
  IF veo_duration > 0
  THEN Frac(user_duration * RoundingGrid + rounding, veo_duration * RoundingGrid)
  ELSE Frac(0, 1)

\* The classification with the upper end of 'perfect' left out.
ClassifyOpenPerfect(ratio) ==
  IF Le(Frac(97, 100), ratio) /\ Lt(ratio, Frac(103, 100)) THEN "perfect"
  ELSE IF Le(Frac(90, 100), ratio) /\ Lt(ratio, Frac(97, 100)) THEN "slightly_fast"
  ELSE IF Le(Frac(75, 100), ratio) /\ Lt(ratio, Frac(90, 100)) THEN "fast"
  ELSE IF Lt(ratio, Frac(75, 100)) THEN "critically_fast"
  ELSE IF Lt(Frac(103, 100), ratio) /\ Le(ratio, Frac(110, 100)) THEN "slightly_slow"
  ELSE IF Lt(Frac(110, 100), ratio) /\ Le(ratio, Frac(125, 100)) THEN "slow"
  ELSE "critically_slow"

\* lines 120-133: the if/elif chain, in its order
Classify(ratio) ==
  IF Le(Frac(97, 100), ratio) /\ Le(ratio, Frac(103, 100)) THEN "perfect"
  ELSE IF Le(Frac(90, 100), ratio) /\ Lt(ratio, Frac(97, 100)) THEN "slightly_fast"
  ELSE IF Le(Frac(75, 100), ratio) /\ Lt(ratio, Frac(90, 100)) THEN "fast"
  ELSE IF Lt(ratio, Frac(75, 100)) THEN "critically_fast"
  ELSE IF Lt(Frac(103, 100), ratio) /\ Le(ratio, Frac(110, 100)) THEN "slightly_slow"
  ELSE IF Lt(Frac(110, 100), ratio) /\ Le(ratio, Frac(125, 100)) THEN "slow"
  ELSE "critically_slow"

\* analyze_pacing testing the user result before the VEO result.
analyze_pacing_user_first(veo, user, rounding) ==
  IF ~user.success
  THEN [success |-> FALSE, error |-> <<"User audio error: ", user.error>>]
  ELSE IF ~veo.success
  THEN [success |-> FALSE, error |-> <<"VEO audio error: ", veo.error>>]
  ELSE [success |-> TRUE,
        veo_speech_duration |-> veo.speech_duration,
        user_speech_duration |-> user.speech_duration,
        ratio |-> Ratio(user.speech_duration, veo.speech_duration, rounding),
        classification |-> Classify(Ratio(user.speech_duration, veo.speech_duration, rounding)),
        veo_segments |-> veo.num_speech_segments,
        user_segments |-> user.num_speech_segments]

\* lines 107-143: what analyze_pacing returns for the two results
analyze_pacing(veo, user, rounding) ==
  IF ~veo.success
  THEN [success |-> FALSE, error |-> <<"VEO audio error: ", veo.error>>]
  ELSE IF ~user.success
  THEN [success |-> FALSE, error |-> <<"User audio error: ", user.error>>]
  ELSE [success |-> TRUE,
        veo_speech_duration |-> veo.speech_duration,
        user_speech_duration |-> user.speech_duration,
        ratio |-> Ratio(user.speech_duration, veo.speech_duration, rounding),
        classification |-> Classify(Ratio(user.speech_duration, veo.speech_duration, rounding)),
        veo_segments |-> veo.num_speech_segments,
        user_segments |-> user.num_speech_segments]

\* line 104: veo_result = get_speech_duration(veo_audio_path)
AnalyzeVeo(a) ==
  /\ vpc = "start"
  /\ veo_audio' = a
  /\ veo_result' = get_speech_duration(a)
  /\ vpc' = "veo"
  /\ UNCHANGED <<user_audio, user_result, pacing_result, server_vars, frame_vars>>

\* line 105: user_result = get_speech_duration(user_audio_path)
AnalyzeUser(a) ==
  /\ vpc = "veo"
  /\ user_audio' = a
  /\ user_result' = get_speech_duration(a)
  /\ vpc' = "user"
  /\ UNCHANGED <<veo_audio, veo_result, pacing_result, server_vars, frame_vars>>

\* lines 107-143: the tests and the return
Return(rounding) ==
  /\ vpc = "user"
  /\ rounding \in Roundings(veo_result, user_result)
  /\ pacing_result' = analyze_pacing(veo_result, user_result, rounding)
  /\ vpc' = "returned"
  /\ UNCHANGED <<veo_audio, user_audio, veo_result, user_result, server_vars, frame_vars>>

NextPacing ==
  \/ vpc = "start" /\ \E a \in Audios : AnalyzeVeo(a)
  \/ vpc = "veo" /\ \E a \in Audios : AnalyzeUser(a)
  \/ \E rounding \in {-1, 0, 1} : Return(rounding)

SpecPacing == Init /\ [][NextPacing]_vars


\* --------------------------------------------------------- properties
Range(seq) == {seq[i] : i \in 1..Len(seq)}

\* Frame t of class c is above the threshold of request r.
Up(r, c, t) == framewise_data[t][c] > threshold[r]

\* The maximal runs <<s, e>> of class c: frames s..e-1 are above the
\* threshold, frame s-1 and frame e are not (where they exist).
MaximalRuns(r, c) ==
  LET n == NumFramesOf(framewise_data)
  IN {p \in (0..n) \X (0..n) :
        /\ p[1] < p[2]
        /\ \A t \in p[1]..(p[2] - 1) : Up(r, c, t)
        /\ p[1] > 0 => ~Up(r, c, p[1] - 1)
        /\ p[2] < n => ~Up(r, c, p[2])}

\* The handler is in the loop over the classes and the class it has just
\* done has a frame above the threshold (so starts and ends are that class's).
ExtractedAbove ==
  /\ busy
  /\ pc[cur] = "inferred"
  /\ class_idx >= 1
  /\ \E t \in DOMAIN framewise_data : Up(cur, class_idx, t)

\* C1: the (start, end) pairs read off the first differences of the padded
\* mask are exactly the maximal runs of frames strictly above the threshold:
\* each pair is within 0 <= start < end <= num_frames and is a maximal run,
\* and every frame above the threshold lies in exactly one pair.
C1_PairsAreMaximalRuns ==
  ExtractedAbove =>
    LET n == NumFramesOf(framewise_data)
    IN /\ Len(starts) = Len(ends)
       /\ \A i \in 1..Len(starts) :
            /\ 0 <= starts[i] /\ starts[i] < ends[i] /\ ends[i] <= n
            /\ <<starts[i], ends[i]>> \in MaximalRuns(cur, class_idx)
       /\ \A t \in 0..(n - 1) :
            Up(cur, class_idx, t) =>
              Cardinality({i \in 1..Len(starts) : starts[i] <= t /\ t < ends[i]}) = 1

C1_Witness ==
  /\ ExtractedAbove
  /\ starts = <<0, 2>>
  /\ ends = <<1, 3>>
  /\ \E t \in DOMAIN framewise_data : framewise_data[t][class_idx] = threshold[cur]

\* The events of the maximal runs of classes 1..k that last min_duration.
ExpectedEvents(r, k) ==
  UNION {{Event(c, p[1], p[2]) :
            p \in {q \in MaximalRuns(r, c) : (q[2] - q[1]) * FrameMs >= min_duration[r]}} :
         c \in 1..k}

\* C2: a maximal run of a class is an event of the response if and only if
\* its length times the frame duration is at least min_duration, and each
\* such run is there once (in the loop: the same for the classes done).
C2_EventsAreRunsOfMinDuration ==
  /\ (busy /\ pc[cur] = "inferred") =>
       /\ Range(events) = ExpectedEvents(cur, class_idx)
       /\ Len(events) = Cardinality(ExpectedEvents(cur, class_idx))
  /\ (busy /\ pc[cur] = "finally" /\ outcome.status = 200) =>
       /\ Range(outcome.events) = ExpectedEvents(cur, NumClasses)
       /\ Len(outcome.events) = Cardinality(ExpectedEvents(cur, NumClasses))
       /\ \A i \in 1..Len(outcome.events) : outcome.events[i].duration >= min_duration[cur]

C2_Witness ==
  /\ busy
  /\ pc[cur] = "finally"
  /\ outcome.status = 200
  /\ \E i \in 1..Len(outcome.events) : outcome.events[i].duration = min_duration[cur]
  /\ \E c \in Classes : \E p \in MaximalRuns(cur, c) :
       Event(c, p[1], p[2]) \notin Range(outcome.events)

\* C9: the events of a success response are in non-decreasing start_time
\* order, and events with the same start_time are in ascending class order.
C9_EventsSortedStable ==
  outcome.status = 200 =>
    \A i, j \in 1..Len(outcome.events) :
      i < j =>
        /\ outcome.events[i].start_time <= outcome.events[j].start_time
        /\ outcome.events[i].start_time = outcome.events[j].start_time
             => outcome.events[i].label < outcome.events[j].label

C9_Witness ==
  /\ outcome.status = 200
  /\ \E i, j \in 1..Len(outcome.events) :
       /\ i < j
       /\ outcome.events[i].start_time = outcome.events[j].start_time
  /\ \E i, j \in 1..Len(outcome.events) :
       /\ i < j
       /\ outcome.events[i].label > outcome.events[j].label


NoDuplicates(seq) == \A i, j \in 1..Len(seq) : i < j => seq[i] # seq[j]

Failure500 ==
  [status |-> 500, detail |-> <<"Audio processing failed: ", raised>>, events |-> <<>>]

\* C3: when a step of a request raises, no further step is invoked and none
\* is invoked twice, the handler hands over the HTTP 500 whose detail begins
\* with 'Audio processing failed: ' and carries no events, and the request
\* ends with that one response; no request has a response before it ends or
\* more than one after.
C3_FailureGivesOne500 ==
  /\ \A r \in Requests : Len(responses[r]) = IF pc[r] = "done" THEN 1 ELSE 0
  /\ (cur \in Requests /\ raised # "") =>
       /\ steps[Len(steps)] = raised
       /\ NoDuplicates(steps)
       /\ pc[cur] \in {"except", "finally", "done"}
       /\ pc[cur] \in {"finally", "done"} => outcome = Failure500
       /\ pc[cur] = "done" => responses[cur] = <<500>>

C3_Witness ==
  /\ cur \in Requests
  /\ pc[cur] = "done"
  /\ raised = "segments"
  /\ events # <<>>
  /\ responses[cur] = <<500>>

C4_ModelState ==
  /\ constructions <= 1
  /\ sed_model = 0 <=> constructions = 0
  /\ model # 0 => model = sed_model
  /\ (busy /\ pc[cur] \in {"model", "inferred", "sorted"}) => model # 0

C4_ModelStep ==
  /\ sed_model # 0 => sed_model' = sed_model
  /\ constructions' # constructions => sed_model = 0
  /\ health_check => health_reply'.model_loaded = (constructions >= 1)

\* C4: the model handle is built at most once: sed_model is None exactly
\* until a constructor has succeeded, it never changes afterwards, every
\* get_model call that returns hands out that one handle, and /health
\* answers model_loaded true exactly when a constructor has succeeded.
C4_ModelBuiltOnce == [](C4_ModelState) /\ [][C4_ModelStep]_vars

C4_Witness ==
  /\ busy
  /\ cur = 1
  /\ pc[1] = "model"
  /\ model = 1
  /\ pc[2] = "done"
  /\ responses[2] = <<200>>
  /\ health_reply.status = "healthy"
  /\ health_reply.model_loaded

IsPrefix(a, b) == Len(a) <= Len(b) /\ SubSeq(b, 1, Len(a)) = a

\* The upload's extension, '.mp4' when it has none, is a video extension
\* whatever its letter case.
HasVideoExtension(name) ==
  LET ext == SplitextExt(name)
  IN Lower(IF ext = <<>> THEN Mp4 ELSE ext) \in VideoExts

PipelineOrder(name) ==
  <<"save">> \o (IF HasVideoExtension(name) THEN <<"ffmpeg">> ELSE <<>>)
    \o <<"decode", "model", "inference", "segments", "response">>

\* C7: the steps a handler invokes are always an initial part of: save,
\* ffmpeg exactly for a video extension, decode, model, inference, segment
\* extraction, response; a success response has invoked them all, each once,
\* and inference is never invoked before the audio is decoded.
C7_LinearPipeline ==
  busy =>
    /\ IsPrefix(steps, PipelineOrder(filename[cur]))
    /\ (pc[cur] = "finally" /\ outcome.status = 200)
         => steps = PipelineOrder(filename[cur])
    /\ (\E i \in 1..Len(steps) : steps[i] = "inference") => audio # None
    /\ pc[cur] \in {"ready", "loaded", "model", "inferred", "sorted"}
         => ((\E i \in 1..Len(steps) : steps[i] = "ffmpeg")
               <=> HasVideoExtension(filename[cur]))

C7_Witness ==
  /\ busy
  /\ pc[cur] = "finally"
  /\ outcome.status = 200
  /\ filename[cur] = <<"a", ".", "M", "o", "V">>
  /\ steps[2] = "ffmpeg"
  /\ audio = TempFile(cur, "audio")

\* C8: once a request has ended, each temporary file created for it is gone
\* unless its unlink failed.
C8_TempFilesDeleted ==
  \A r \in Requests :
    pc[r] = "done" =>
      \A kind \in Kinds :
        TempFile(r, kind) \in fs => TempFile(r, kind) \in unlink_failed


\* C5: analyze_pacing always returns once both analyses are made; it returns
\* success True exactly when neither analysis raised; otherwise it returns
\* only success False and an error, which is the VEO message whenever the VEO
\* analysis raised and the user message only when the user analysis alone did.
C5_PacingErrors ==
  /\ vpc = "user" => ENABLED Return(0)
  /\ vpc = "returned" =>
       /\ pacing_result.success <=> (~veo_audio.raises /\ ~user_audio.raises)
       /\ veo_audio.raises =>
            pacing_result =
              [success |-> FALSE, error |-> <<"VEO audio error: ", veo_audio.error>>]
       /\ (~veo_audio.raises /\ user_audio.raises) =>
            pacing_result =
              [success |-> FALSE, error |-> <<"User audio error: ", user_audio.error>>]
       /\ ~pacing_result.success => DOMAIN pacing_result = {"success", "error"}

C5_Witness ==
  /\ vpc = "returned"
  /\ veo_audio.raises
  /\ user_audio.raises
  /\ veo_audio.error # user_audio.error
  /\ pacing_result.error[2] = veo_audio.error

Bands == <<"critically_fast", "fast", "slightly_fast", "perfect",
           "slightly_slow", "slow", "critically_slow">>

\* The band of a ratio: one step up for each cut the ratio has passed, the
\* cuts below 'perfect' being passed when reached and those above it only
\* when exceeded.
BandIndex(ratio) ==
  1 + Cardinality({k \in {75, 90, 97} : 100 * ratio[1] >= k * ratio[2]})
    + Cardinality({k \in {103, 110, 125} : 100 * ratio[1] > k * ratio[2]})

Cuts == {75, 90, 97, 103, 110, 125}

\* C6: when both analyses succeed the ratio is user_duration / veo_duration
\* (to within the rounding of the quotient), and 0 when veo_duration is 0,
\* and the classification is the band of that ratio among the seven, which
\* are disjoint, cover every ratio and rise with it; it is the band of the
\* exact quotient whenever that is not on a cut.
C6_ClassificationBands ==
  (vpc = "returned" /\ pacing_result.success) =>
    LET user == TotalSpeechSamples(user_audio.speech_timestamps)
        veo == TotalSpeechSamples(veo_audio.speech_timestamps)
        ratio == pacing_result.ratio
    IN /\ pacing_result.user_speech_duration = user
       /\ pacing_result.veo_speech_duration = veo
       /\ veo = 0 => ratio = <<0, 1>> /\ pacing_result.classification = "critically_fast"
       /\ veo > 0 =>
            /\ ratio[2] = veo * RoundingGrid
            /\ ratio[1] \in (user * RoundingGrid - 1)..(user * RoundingGrid + 1)
            /\ user = 0 => ratio[1] = 0
       /\ pacing_result.classification = Bands[BandIndex(ratio)]
       /\ (veo > 0 /\ \A k \in Cuts : 100 * user # k * veo) =>
            pacing_result.classification = Bands[BandIndex(<<user, veo>>)]

C6_Witness ==
  /\ vpc = "returned"
  /\ pacing_result.success
  /\ pacing_result.user_speech_duration = 103
  /\ pacing_result.veo_speech_duration = 100
  /\ pacing_result.ratio = <<103 * RoundingGrid, 100 * RoundingGrid>>
  /\ pacing_result.classification = "perfect"

====
